---------------------------- MODULE Spec2Model ----------------------------
(***************************************************************************)
(* A model of the S3 Vectors proof of concept: src/s3_bucket.py (the       *)
(* provisioning / probing / ingestion / query functions and main) and      *)
(* src/s3_clean_short.py (the short demo script).                          *)
(*                                                                         *)
(* The two external collaborators, the storage service (boto3 s3vectors)   *)
(* and the embedding service (OpenAI), are modelled as nondeterministic    *)
(* responders: every call either returns a response or raises an error     *)
(* with a text, drawn from small pools.  The storage service remembers the *)
(* buckets, the indexes and the vector records it accepted.                *)
(*                                                                         *)
(* Three programs use the code: main of s3_bucket.py, the short demo       *)
(* script, and a client that imports s3_bucket and calls its provisioning, *)
(* ingestion and query steps with arguments of its own.                    *)
(***************************************************************************)
EXTENDS Integers, Sequences, FiniteSets, TLC

(* ------------------------------ bounds -------------------------------- *)

\* Calls a client makes in one session.
MaxCalls == 2
\* Longest batch of texts a client ingests.
MaxBatch == 2
\* Largest topK a client asks for.
MaxTopK == 2
\* Longest result list the storage service answers a query with.
MaxResults == 2

(* ------------------------- program constants -------------------------- *)

max_retries == 3
RetrySleep == 30
InitSleep == 30
IndexingSleep == 15
ShortIndexingSleep == 10
DefaultTopK == 5
ShortTopK == 3
ProbeTopK == 1
VECTOR_DIMENSIONS == 3072

BucketName == "my-vector-bucket"
IndexName == "embeddings-index"

sample_texts ==
    << "The quick brown fox jumps over the lazy dog.",
       "A journey of a thousand miles begins with a single step.",
       "To be or not to be, that is the question.",
       "All that glitters is not gold.",
       "The early bird catches the worm." >>

short_texts == << "The quick brown fox...", "Early bird catches the worm" >>

query_text == "What is the opposite of a late riser?"
short_query_text == "Who wakes up early?"

\* Texts a client ingests.
ClientTexts == {"a", "b"}

(* ------------------------------ strings ------------------------------- *)

UpperAlphabet == "ABCDEFGHIJKLMNOPQRSTUVWXYZ"
LowerAlphabet == "abcdefghijklmnopqrstuvwxyz"

\* One character of str.lower().
LowerChar(c) ==
    IF \E i \in 1..Len(UpperAlphabet) : SubSeq(UpperAlphabet, i, i) = c
    THEN LET i == CHOOSE j \in 1..Len(UpperAlphabet) : SubSeq(UpperAlphabet, j, j) = c
         IN  SubSeq(LowerAlphabet, i, i)
    ELSE c

\* str.lower()
RECURSIVE Lower(_)
Lower(s) ==
    IF Len(s) = 0 THEN ""
    ELSE LowerChar(SubSeq(s, 1, 1)) \o Lower(SubSeq(s, 2, Len(s)))

\* sub in s
Contains(s, sub) ==
    \E i \in 1..(Len(s) - Len(sub) + 1) : SubSeq(s, i, i + Len(sub) - 1) = sub

\* The error texts the storage service raises.
BucketExistsTexts == {"BucketAlreadyExists", "Conflict: Bucket Already Exists"}
IndexExistsTexts == {"IndexAlreadyExists", "Conflict: Index Already Exists"}
NotReadyTexts == {"index not ready", "Index is Building"}
OtherErrorTexts == {"AccessDenied"}

ErrorTexts ==
    {""} \cup BucketExistsTexts \cup IndexExistsTexts \cup NotReadyTexts \cup OtherErrorTexts

\* str(e).lower() of each error text, computed once.
LowerOf == [m \in ErrorTexts |-> Lower(m)]

lower(msg) == LowerOf[msg]

(* --------------------------- python values ---------------------------- *)

PyNone == [py |-> "None"]
PyBool(b) == [py |-> "bool", v |-> b]
PyDict(d) == [py |-> "dict", v |-> d]
PyList(l) == [py |-> "list", v |-> l]

\* Python's truth value: None is false, a dict or a list is true unless empty.
Truthy(x) ==
    CASE x.py = "None" -> FALSE
      [] x.py = "bool" -> x.v
      [] x.py = "dict" -> x.v.keys # {}
      [] x.py = "list" -> Len(x.v) > 0

(* ------------------------- service responses -------------------------- *)

\* A response dict of the storage client: its top-level keys, the HTTP status
\* under ResponseMetadata and, for a query, the list under 'vectors'.
Ok(status) ==
    [kind |-> "ok", status |-> status, msg |-> "",
     keys |-> {"ResponseMetadata"}, vectors |-> << >>]

OkVectors(vs) ==
    [kind |-> "ok", status |-> 200, msg |-> "",
     keys |-> {"ResponseMetadata", "vectors"}, vectors |-> vs]

\* The call raised an exception whose str() is msg.
Raise(msg) ==
    [kind |-> "raise", status |-> 0, msg |-> msg, keys |-> {}, vectors |-> << >>]

NoResponse == [kind |-> "none", status |-> 0, msg |-> "", keys |-> {}, vectors |-> << >>]


\* create_vector_bucket of the service: creates an absent bucket, refuses an
\* existing one with an "already exists" error; may fail otherwise.
CreateBucketResponses(bs) ==
    IF \E i \in 1..Len(bs) : bs[i] = BucketName
    THEN {Raise(m) : m \in BucketExistsTexts \cup OtherErrorTexts}
    ELSE {Ok(200), Ok(500)} \cup {Raise(m) : m \in OtherErrorTexts}

\* create_index of the service.
CreateIndexResponses(ix) ==
    IF \E i \in 1..Len(ix) : ix[i] = IndexName
    THEN {Raise(m) : m \in IndexExistsTexts \cup OtherErrorTexts}
    ELSE {Ok(200), Ok(500)} \cup {Raise(m) : m \in OtherErrorTexts}

\* query_vectors of the service, asked by the readiness probe.
ProbeResponses ==
    {OkVectors(<< >>)} \cup {Raise(m) : m \in NotReadyTexts \cup OtherErrorTexts}

\* list_vector_buckets / list_indexes of the service.
ListResponses == {Ok(200)} \cup {Raise(m) : m \in OtherErrorTexts}

\* put_vectors of the service.
PutResponses == {Ok(200), Ok(500)} \cup {Raise(m) : m \in OtherErrorTexts}

\* The embedding service: one opaque vector per text, in order.
Embedding(t) == [of |-> t]

EmbedResponses(ts) ==
    {[kind |-> "ok", data |-> [i \in 1..Len(ts) |-> Embedding(ts[i])]],
     [kind |-> "raise", data |-> << >>]}

Min(a, b) == IF a < b THEN a ELSE b

\* Distance of the i-th nearest result, in tenths: 0.1, 0.5, 0.9, ...
DistanceAt(i) == 4 * i - 3

\* The i-th result of a query: a stored record with its distance; the record at
\* position nodist (if any) comes without a distance field.
QueryResult(st, i, nodist) ==
    IF i = nodist
    THEN [key |-> st[i].key, metadata |-> st[i].metadata]
    ELSE [key |-> st[i].key, metadata |-> st[i].metadata, distance |-> DistanceAt(i)]

\* query_vectors of the service: the nearest m stored records, nearest first
\* (whatever topK was asked), a response without 'vectors', or an error.
QueryResponses(st) ==
    {OkVectors([i \in 1..m |-> QueryResult(st, i, nodist)]) :
        m \in 0..Min(MaxResults, Len(st)), nodist \in 0..Min(MaxResults, Len(st))}
    \cup {Ok(200)} \cup {Raise(m) : m \in OtherErrorTexts}

\* A record some other writer left in the index: its metadata has no original_text.
ForeignRecord == [key |-> 0, data |-> [of |-> "foreign"], metadata |-> [source |-> "other"]]


(* ------------------- the functions of s3_bucket.py -------------------- *)

\* create_vector_bucket comparing the words without lower().
create_vector_bucket_cased(resp) ==
    IF resp.kind = "ok" THEN PyDict(resp)
    ELSE IF Contains(resp.msg, "BucketAlreadyExists")
            \/ Contains(resp.msg, "already exists")
         THEN PyBool(TRUE)
         ELSE PyNone

\* create_vector_bucket: the response itself, True for "already exists", else None.
create_vector_bucket(resp) ==
    IF resp.kind = "ok" THEN PyDict(resp)
    ELSE IF Contains(resp.msg, "BucketAlreadyExists")
            \/ Contains(lower(resp.msg), "already exists")
         THEN PyBool(TRUE)
         ELSE PyNone


\* create_vector_index without the "already exists" case: any error gives None.
create_vector_index_strict(resp) ==
    IF resp.kind = "ok" THEN PyDict(resp) ELSE PyNone

\* create_vector_index: the response itself, True for "already exists", else None.
create_vector_index(resp) ==
    IF resp.kind = "ok" THEN PyDict(resp)
    ELSE IF Contains(resp.msg, "IndexAlreadyExists")
            \/ Contains(lower(resp.msg), "already exists")
         THEN PyBool(TRUE)
         ELSE PyNone

\* setup_infrastructure after a creation step: whether it goes on.
setup_goes_on(result) == Truthy(result)

\* list_vector_buckets / list_vector_indexes: the listed entries, [] on an error.
list_result(resp, entries) ==
    IF resp.kind = "ok" THEN PyList(entries) ELSE PyList(<< >>)

\* test_index_with_simple_operation taking every error for "not ready".
test_index_any_error_not_ready(resp) == resp.kind = "ok"

\* test_index_with_simple_operation: False only for a "not ready"/"building" error.
test_index_with_simple_operation(resp) ==
    IF resp.kind = "ok" THEN TRUE
    ELSE IF Contains(lower(resp.msg), "not ready")
            \/ Contains(lower(resp.msg), "building")
         THEN FALSE
         ELSE TRUE

\* Keys derived from the content instead of generated.
NewKeysFromContent(n, vectors) == [i \in 1..Len(vectors) |-> Len(vectors[i].of)]

\* str(uuid.uuid4()) for each vector: keys never generated before; n keys exist.
NewKeys(n, vectors) == [i \in 1..Len(vectors) |-> n + i]


\* insert_vectors attaching the first metadata entry to every record.
BuildRecordsOneMetadata(vectors, metadata_list, keys) ==
    [i \in 1..Len(vectors) |->
        [key |-> keys[i], data |-> vectors[i], metadata |-> metadata_list[1]]]

\* insert_vectors: the list it hands to put_vectors.
BuildRecords(vectors, metadata_list, keys) ==
    [i \in 1..Len(vectors) |->
        [key |-> keys[i], data |-> vectors[i], metadata |-> metadata_list[i]]]

\* insert_vectors answering True when put_vectors raised.
insert_vectors_error_as_success(resp) ==
    IF resp.kind = "ok" THEN PyDict(resp) ELSE PyBool(TRUE)

\* insert_vectors: the response, or None when put_vectors raised.
insert_vectors(resp) ==
    IF resp.kind = "ok" THEN PyDict(resp) ELSE PyNone

\* metadata.get('original_text', default)
OriginalText(md, default) ==
    IF "original_text" \in DOMAIN md THEN md.original_text ELSE default

\* One printed line of query_vectors.
DisplayLine(i, result) ==
    [rank |-> i, text |-> OriginalText(result.metadata, "No text available"),
     distance |-> result.distance]

\* The first result that has no 'distance' (0: each has one): formatting its
\* placeholder 'N/A' with .4f raises.
FirstUnformattable(results) ==
    IF \E i \in 1..Len(results) : "distance" \notin DOMAIN results[i]
    THEN CHOOSE i \in 1..Len(results) :
            /\ "distance" \notin DOMAIN results[i]
            /\ \A j \in 1..(i - 1) : "distance" \in DOMAIN results[j]
    ELSE 0


\* query_vectors taking a response without results for a failure.
query_vectors_empty_is_error(resp, k) ==
    IF resp.kind = "ok" /\ "vectors" \in resp.keys /\ Len(resp.vectors) > 0
       /\ FirstUnformattable(resp.vectors) = 0
    THEN [ret |-> PyDict(resp),
          out |-> [i \in 1..Len(resp.vectors) |-> DisplayLine(i, resp.vectors[i])]]
    ELSE [ret |-> PyNone, out |-> << >>]

\* query_vectors: what it prints and what it returns.
query_vectors(resp, k) ==
    IF resp.kind # "ok" THEN [ret |-> PyNone, out |-> << >>]
    ELSE IF "vectors" \in resp.keys /\ Len(resp.vectors) > 0
         THEN LET bad == FirstUnformattable(resp.vectors)
              IN  IF bad = 0
                  THEN [ret |-> PyDict(resp),
                        out |-> [i \in 1..Len(resp.vectors) |-> DisplayLine(i, resp.vectors[i])]]
                  ELSE [ret |-> PyNone,
                        out |-> [i \in 1..(bad - 1) |-> DisplayLine(i, resp.vectors[i])]]
         ELSE [ret |-> PyDict(resp), out |-> << >>]

\* main's metadata for a batch of texts.
main_metadata(ts) ==
    [i \in 1..Len(ts) |-> [original_text |-> ts[i], source |-> "demo"]]

(* ----------------- the functions of s3_clean_short.py ----------------- *)

\* insert: the list it hands to put_vectors (zip stops at the shorter list).
short_BuildRecords(vectors, metadatas, keys) ==
    [i \in 1..Min(Len(vectors), Len(metadatas)) |->
        [key |-> keys[i], data |-> vectors[i], metadata |-> metadatas[i]]]

short_metadata(ts) == [i \in 1..Len(ts) |-> [original_text |-> ts[i]]]

\* query: the lines it prints; it raises (ok = FALSE) when the call raises or a
\* result has no 'distance'.
short_query(resp) ==
    IF resp.kind # "ok" THEN [ok |-> FALSE, out |-> << >>]
    ELSE LET results == IF "vectors" \in resp.keys THEN resp.vectors ELSE << >>
             bad == FirstUnformattable(results)
             line(i) == [rank |-> i, text |-> OriginalText(results[i].metadata, "None"),
                         distance |-> results[i].distance]
         IN  IF bad = 0
             THEN [ok |-> TRUE, out |-> [i \in 1..Len(results) |-> line(i)]]
             ELSE [ok |-> FALSE, out |-> [i \in 1..(bad - 1) |-> line(i)]]

(* ------------------------------- state -------------------------------- *)

VARIABLES
    prog, \* "main", "short" or "client"
    pc, \* where the program stands
    buckets, \* the service's vector buckets (names)
    indexes, \* the service's indexes in the bucket (names)
    stored, \* the service's vector records in the index
    nextKey, \* how many keys uuid4 has generated
    texts, \* the batch of texts to ingest
    embeddings, \* main's embeddings
    metadata, \* main's metadata
    vectors_to_insert, \* the list last handed to put_vectors
    insert_result, \* main's insert_result
    setup_result, \* what setup_infrastructure returned
    attempt, \* the probing loop's attempt
    top_k, \* top_k of the query
    trace, \* the remote calls and sleeps of this run, in order
    key_log, \* the keys of every record ever handed to put_vectors
    meta_log, \* the metadata supplied for each of those records
    setup_log, \* every setup_infrastructure call: its responses and its result
    last, \* the last function call: its response and its result
    displayed, \* the result lines the query printed
    calls               \* calls the client has made

vars == << prog, pc, buckets, indexes, stored, nextKey, texts, embeddings, metadata,
           vectors_to_insert, insert_result, setup_result, attempt, top_k, trace,
           key_log, meta_log, setup_log, last, displayed, calls >>

service == << buckets, indexes, stored >>
ingestion == << texts, embeddings, metadata, vectors_to_insert, insert_result, nextKey,
               key_log, meta_log >>

\* One remote call or sleep: what, its size (texts, records, topK or seconds)
\* and the response it got.
Ev(op, n, resp) == [op |-> op, n |-> n, resp |-> resp]

Called(fn, resp, ret) == [fn |-> fn, resp |-> resp, ret |-> ret]

\* One call of setup_infrastructure: what the two creations answered (NoResponse
\* for a creation not attempted) and what the function returned.
SetupCall(bucket_resp, index_resp, ok) ==
    [bucket |-> bucket_resp, index |-> index_resp, result |-> ok]

Programs == {"main", "short", "client"}

\* Where each program starts.
Entry(p) ==
    CASE p = "main" -> "create_bucket"
      [] p = "short" -> "embed_batch"
      [] p = "client" -> "idle"

ProgramTexts(p) ==
    CASE p = "main" -> sample_texts
      [] p = "short" -> short_texts
      [] p = "client" -> << >>

ProgramTopK(p) ==
    CASE p = "main" -> DefaultTopK
      [] p = "short" -> ShortTopK
      [] p = "client" -> 1

\* The service may already hold the bucket, the index and a record of another
\* writer when the program starts.
Init ==
    /\ prog \in Programs
    /\ pc = Entry(prog)
    /\ buckets \in {<< >>, << BucketName >>}
    /\ indexes \in {<< >>} \cup (IF buckets = << >> THEN {} ELSE {<< IndexName >>})
    /\ stored \in {<< >>} \cup (IF indexes = << >> THEN {} ELSE {<< ForeignRecord >>})
    /\ nextKey = 0
    /\ texts = ProgramTexts(prog)
    /\ embeddings = << >>
    /\ metadata = << >>
    /\ vectors_to_insert = << >>
    /\ insert_result = PyNone
    /\ setup_result = PyNone
    /\ attempt = 0
    /\ top_k = ProgramTopK(prog)
    /\ trace = << >>
    /\ key_log = << >>
    /\ meta_log = << >>
    /\ setup_log = << >>
    /\ last = Called("none", NoResponse, PyNone)
    /\ displayed = << >>
    /\ calls = 0

(* --------------------------- provisioning ----------------------------- *)

\* main going on whatever setup_infrastructure returned.
main_after_setup_unchecked(ok) ==
    IF prog = "main" THEN "delay_init" ELSE "idle"

\* main probing at once, without the sleep after provisioning.
main_after_setup_no_delay(ok) ==
    IF prog = "main" THEN (IF ok THEN "probe" ELSE "done") ELSE "idle"

\* main after setup_infrastructure returned ok; a client gets the result back.
main_after_setup(ok) ==
    IF prog = "main" THEN (IF ok THEN "delay_init" ELSE "done") ELSE "idle"

\* setup_infrastructure, first half: create_vector_bucket and its check.
CreateVectorBucket ==
    /\ pc = "create_bucket"
    /\ \E resp \in CreateBucketResponses(buckets) :
          LET bucket_result == create_vector_bucket(resp)
          IN  /\ buckets' = IF resp.kind = "ok" /\ resp.status = 200
                            THEN Append(buckets, BucketName) ELSE buckets
              /\ last' = Called("create_vector_bucket", resp, bucket_result)
              /\ trace' = Append(trace, Ev("create_bucket", 1, resp))
              /\ IF setup_goes_on(bucket_result)
                 THEN /\ pc' = "create_index"
                      /\ setup_result' = PyNone
                      /\ UNCHANGED setup_log
                 ELSE /\ pc' = main_after_setup(FALSE)
                      /\ setup_result' = PyBool(FALSE)
                      /\ setup_log' = Append(setup_log, SetupCall(resp, NoResponse, FALSE))
    /\ UNCHANGED << prog, indexes, stored, ingestion, attempt, top_k,
                    displayed, calls >>

\* setup_infrastructure, second half: create_vector_index and its check.
CreateVectorIndex ==
    /\ pc = "create_index"
    /\ \E resp \in CreateIndexResponses(indexes) :
          LET index_result == create_vector_index(resp)
          IN  /\ indexes' = IF resp.kind = "ok" /\ resp.status = 200
                            THEN Append(indexes, IndexName) ELSE indexes
              /\ last' = Called("create_vector_index", resp, index_result)
              /\ trace' = Append(trace, Ev("create_index", 1, resp))
              /\ setup_result' = PyBool(setup_goes_on(index_result))
              /\ pc' = main_after_setup(setup_goes_on(index_result))
              /\ setup_log' = Append(setup_log,
                                SetupCall(last.resp, resp, setup_goes_on(index_result)))
    /\ UNCHANGED << prog, buckets, stored, ingestion, attempt, top_k,
                    displayed, calls >>

(* ---------------------------- readiness ------------------------------ *)

\* main: time.sleep(30) before the first probe.
DelayInit ==
    /\ pc = "delay_init"
    /\ trace' = Append(trace, Ev("delay_init", InitSleep, NoResponse))
    /\ attempt' = 0
    /\ pc' = "probe"
    /\ UNCHANGED << prog, setup_log, service, ingestion, setup_result, top_k, last,
                    displayed, calls >>

\* The probing loop without its break.
probe_loop_no_break(ready, a) ==
    IF a < max_retries - 1 THEN "delay_retry" ELSE "list_buckets"

\* The probing loop sleeping after the last attempt too, and going round again.
probe_loop_sleep_after_last(ready, a) ==
    IF ready THEN "list_buckets"
    ELSE IF a < max_retries THEN "delay_retry"
    ELSE "list_buckets"


\* The probing loop retrying until the index is ready, however long it takes.
probe_loop_until_ready(ready, a) ==
    IF ready THEN "list_buckets" ELSE "delay_retry"

\* main's probing loop after one test: break, sleep and retry, or fall through.
probe_loop_next(ready, a) ==
    IF ready THEN "list_buckets"
    ELSE IF a < max_retries - 1 THEN "delay_retry"
    ELSE "list_buckets"


\* test_index_with_simple_operation's test_vector, [0.1] * VECTOR_DIMENSIONS,
\* in tenths.
test_vector == [i \in 1..VECTOR_DIMENSIONS |-> 1]

\* The dimension create_vector_index gives the index.
IndexDimension == VECTOR_DIMENSIONS

\* The request of the probe: a query_vectors call with the test vector.
ProbeRequest ==
    [call |-> "query_vectors",
     topK |-> ProbeTopK,
     dimension |-> Len(test_vector),
     values |-> {test_vector[i] : i \in DOMAIN test_vector}]

\* A probe that tests the index by writing its test vector into it.
ProbeByInsert ==
    /\ pc = "probe"
    /\ \E resp \in ProbeResponses :
          LET ready == test_index_with_simple_operation(resp)
          IN  /\ last' = Called("test_index_with_simple_operation", resp, PyBool(ready))
              /\ trace' = Append(trace, Ev("probe", ProbeRequest.topK, resp))
              /\ pc' = probe_loop_next(ready, attempt)
              /\ stored' = IF resp.kind = "ok"
                           THEN Append(stored, [key |-> 0, data |-> [of |-> "test"],
                                                metadata |-> [source |-> "probe"]])
                           ELSE stored
    /\ UNCHANGED << prog, setup_log, buckets, indexes, ingestion, setup_result, attempt,
                    top_k, displayed, calls >>

\* One iteration of the probing loop: test_index_with_simple_operation.
Probe ==
    /\ pc = "probe"
    /\ \E resp \in ProbeResponses :
          LET ready == test_index_with_simple_operation(resp)
          IN  /\ last' = Called("test_index_with_simple_operation", resp, PyBool(ready))
              /\ trace' = Append(trace, Ev("probe", ProbeRequest.topK, resp))
              /\ pc' = probe_loop_next(ready, attempt)
    /\ UNCHANGED << prog, setup_log, service, ingestion, setup_result, attempt, top_k,
                    displayed, calls >>

\* The probing loop's time.sleep(30), then the next attempt.
DelayRetry ==
    /\ pc = "delay_retry"
    /\ trace' = Append(trace, Ev("delay_retry", RetrySleep, NoResponse))
    /\ attempt' = attempt + 1
    /\ pc' = "probe"
    /\ UNCHANGED << prog, setup_log, service, ingestion, setup_result, top_k, last,
                    displayed, calls >>

(* ----------------------------- listing -------------------------------- *)

ListVectorBuckets ==
    /\ pc = "list_buckets"
    /\ \E resp \in ListResponses :
          /\ last' = Called("list_vector_buckets", resp, list_result(resp, buckets))
          /\ trace' = Append(trace, Ev("list_buckets", 1, resp))
    /\ pc' = "list_indexes"
    /\ UNCHANGED << prog, setup_log, service, ingestion, setup_result, attempt, top_k,
                    displayed, calls >>

ListVectorIndexes ==
    /\ pc = "list_indexes"
    /\ \E resp \in ListResponses :
          /\ last' = Called("list_vector_indexes", resp, list_result(resp, indexes))
          /\ trace' = Append(trace, Ev("list_indexes", 1, resp))
    /\ pc' = "embed_batch"
    /\ UNCHANGED << prog, setup_log, service, ingestion, setup_result, attempt, top_k,
                    displayed, calls >>

(* ---------------------------- ingestion ------------------------------- *)

\* After generate_embeddings returned: main prints len(embeddings[0]), which
\* raises on an empty list; the short script and a client go straight on.
after_embed(embs) ==
    IF prog = "main" /\ Len(embs) = 0 THEN "crashed" ELSE "insert"

\* The metadata each program attaches.
batch_metadata(ts) ==
    IF prog = "short" THEN short_metadata(ts) ELSE main_metadata(ts)

\* generate_embeddings(texts) / embed(texts): one call with the whole batch;
\* an error of the embedding service is not caught.
GenerateEmbeddings ==
    /\ pc = "embed_batch"
    /\ \E resp \in EmbedResponses(texts) :
          /\ last' = Called("generate_embeddings", resp, PyList(resp.data))
          /\ trace' = Append(trace, Ev("embed_batch", Len(texts), resp))
          /\ IF resp.kind = "ok"
             THEN /\ embeddings' = resp.data
                  /\ metadata' = batch_metadata(texts)
                  /\ pc' = after_embed(resp.data)
             ELSE /\ pc' = "crashed"
                  /\ UNCHANGED << embeddings, metadata >>
    /\ UNCHANGED << prog, setup_log, service, texts, vectors_to_insert, insert_result, nextKey, key_log, meta_log,
                    setup_result, attempt, top_k, displayed, calls >>

\* What the service holds after put_vectors answered resp.
put_vectors(st, records, resp) ==
    IF resp.kind = "ok" /\ resp.status = 200 THEN st \o records ELSE st

\* main inserting again after a failed insert.
main_after_insert_retrying(result) ==
    IF prog = "main" THEN (IF Truthy(result) THEN "delay_insert" ELSE "insert")
    ELSE "idle"

\* main after insert_vectors returned; a client gets the result back.
main_after_insert(result) ==
    IF prog = "main" THEN (IF Truthy(result) THEN "delay_insert" ELSE "done")
    ELSE "idle"

\* insert_vectors of s3_bucket.py, and main's check of its result.
InsertVectors ==
    /\ pc = "insert"
    /\ prog # "short"
    /\ LET keys == NewKeys(nextKey, embeddings)
           records == BuildRecords(embeddings, metadata, keys)
       IN  /\ nextKey' = nextKey + Len(embeddings)
           /\ key_log' = key_log \o [i \in 1..Len(records) |-> records[i].key]
           /\ meta_log' = meta_log \o [i \in 1..Len(records) |-> metadata[i]]
           /\ vectors_to_insert' = records
           /\ \E resp \in PutResponses :
                 /\ stored' = put_vectors(stored, records, resp)
                 /\ insert_result' = insert_vectors(resp)
                 /\ last' = Called("insert_vectors", resp, insert_vectors(resp))
                 /\ trace' = Append(trace, Ev("put_vectors", Len(records), resp))
                 /\ pc' = main_after_insert(insert_vectors(resp))
    /\ UNCHANGED << prog, setup_log, buckets, indexes, texts, embeddings, metadata, setup_result,
                    attempt, top_k, displayed, calls >>

\* insert of s3_clean_short.py: no error is caught, the result is not looked at.
ShortInsert ==
    /\ pc = "insert"
    /\ prog = "short"
    /\ LET keys == NewKeys(nextKey, embeddings)
           records == short_BuildRecords(embeddings, metadata, keys)
       IN  /\ nextKey' = nextKey + Len(records)
           /\ key_log' = key_log \o [i \in 1..Len(records) |-> records[i].key]
           /\ meta_log' = meta_log \o [i \in 1..Len(records) |-> metadata[i]]
           /\ vectors_to_insert' = records
           /\ \E resp \in PutResponses :
                 /\ stored' = put_vectors(stored, records, resp)
                 /\ insert_result' = insert_vectors(resp)
                 /\ last' = Called("insert", resp, insert_vectors(resp))
                 /\ trace' = Append(trace, Ev("put_vectors", Len(records), resp))
                 /\ pc' = IF resp.kind = "ok" THEN "delay_insert" ELSE "crashed"
    /\ UNCHANGED << prog, setup_log, buckets, indexes, texts, embeddings, metadata, setup_result,
                    attempt, top_k, displayed, calls >>

\* time.sleep(15) of main, time.sleep(10) of the short script, after the insert.
DelayInsert ==
    /\ pc = "delay_insert"
    /\ trace' = Append(trace, Ev("delay_insert",
                    IF prog = "short" THEN ShortIndexingSleep ELSE IndexingSleep,
                    NoResponse))
    /\ pc' = "embed_query"
    /\ UNCHANGED << prog, setup_log, service, ingestion, setup_result, attempt, top_k,
                    last, displayed, calls >>

(* ------------------------------ query --------------------------------- *)

\* generate_embeddings([query_text])[0]: an error is not caught.
EmbedQuery ==
    /\ pc = "embed_query"
    /\ \E resp \in EmbedResponses(<< IF prog = "short" THEN short_query_text ELSE query_text >>) :
          /\ last' = Called("generate_embeddings", resp, PyList(resp.data))
          /\ trace' = Append(trace, Ev("embed_query", 1, resp))
          /\ pc' = IF resp.kind = "ok" THEN "query" ELSE "crashed"
    /\ UNCHANGED << prog, setup_log, service, ingestion, setup_result, attempt, top_k,
                    displayed, calls >>

\* Where a program stands when its last step returned.
finished == IF prog = "client" THEN "idle" ELSE "done"

\* query_vectors of s3_bucket.py.
QueryVectors ==
    /\ pc = "query"
    /\ prog # "short"
    /\ \E resp \in QueryResponses(stored) :
          LET q == query_vectors(resp, top_k)
          IN  /\ displayed' = q.out
              /\ last' = Called("query_vectors", resp, q.ret)
              /\ trace' = Append(trace, Ev("query_vectors", top_k, resp))
    /\ pc' = finished
    /\ UNCHANGED << prog, setup_log, service, ingestion, setup_result, attempt, top_k,
                    calls >>

\* query of s3_clean_short.py: an error ends the script.
ShortQuery ==
    /\ pc = "query"
    /\ prog = "short"
    /\ \E resp \in QueryResponses(stored) :
          LET q == short_query(resp)
          IN  /\ displayed' = q.out
              /\ last' = Called("query", resp, PyNone)
              /\ trace' = Append(trace, Ev("query_vectors", top_k, resp))
              /\ pc' = IF q.ok THEN "done" ELSE "crashed"
    /\ UNCHANGED << prog, setup_log, service, ingestion, setup_result, attempt, top_k,
                    calls >>

(* ------------------------------ client -------------------------------- *)

\* The batches a client ingests.
Batches == UNION {[1..n -> ClientTexts] : n \in 0..MaxBatch}

\* A client's call starts with fresh locals and a fresh trace; what the service
\* holds and the keys generated so far stay.
ClientCall(entry, ts, k) ==
    /\ pc = "idle" /\ prog = "client" /\ calls < MaxCalls
    /\ pc' = entry
    /\ calls' = calls + 1
    /\ texts' = ts
    /\ top_k' = k
    /\ trace' = << >>
    /\ embeddings' = << >>
    /\ metadata' = << >>
    /\ vectors_to_insert' = << >>
    /\ insert_result' = PyNone
    /\ setup_result' = PyNone
    /\ displayed' = << >>
    /\ last' = Called("none", NoResponse, PyNone)
    /\ UNCHANGED << prog, setup_log, service, nextKey, key_log, meta_log, attempt >>

\* A client calls setup_infrastructure.
ClientSetup == ClientCall("create_bucket", << >>, 1)

\* A client ingests a batch: generate_embeddings, then insert_vectors.
ClientIngest == \E ts \in Batches : ClientCall("embed_batch", ts, 1)

\* A client queries: generate_embeddings, then query_vectors with its top_k.
ClientQuery == \E k \in 1..MaxTopK : ClientCall("embed_query", << >>, k)

Next ==
    \/ CreateVectorBucket
    \/ CreateVectorIndex
    \/ DelayInit
    \/ Probe
    \/ DelayRetry
    \/ ListVectorBuckets
    \/ ListVectorIndexes
    \/ GenerateEmbeddings
    \/ InsertVectors
    \/ ShortInsert
    \/ DelayInsert
    \/ EmbedQuery
    \/ QueryVectors
    \/ ShortQuery
    \/ ClientSetup
    \/ ClientIngest
    \/ ClientQuery

Spec == Init /\ [][Next]_vars

\* Every call returns or fails, and the program then takes its next step.
FairSpec == Spec /\ WF_vars(Next)

(* ------------------------- reading the trace -------------------------- *)

\* Positions of the trace holding operation op.
At(op) == {i \in 1..Len(trace) : trace[i].op = op}

CountOp(op) == Cardinality(At(op))

IsProbe(e) == e.op = "probe"

\* The responses this run's readiness probes got, in order.
ProbeHistory ==
    LET ps == SelectSeq(trace, IsProbe) IN [i \in 1..Len(ps) |-> ps[i].resp]

\* An error text that says "already exists": the token, or the words in any case.
SaysAlreadyExists(msg, token) ==
    Contains(msg, token) \/ Contains(lower(msg), "already exists")

\* The call raised an "already exists" error.
RaisedAlreadyExists(resp, token) ==
    resp.kind = "raise" /\ SaysAlreadyExists(resp.msg, token)

\* The call raised an error that is not "already exists".
RaisedOther(resp, token) ==
    resp.kind = "raise" /\ ~SaysAlreadyExists(resp.msg, token)

\* A probe response classified NotReady, Ready, Indeterminate.
IsNotReady(resp) ==
    resp.kind = "raise"
    /\ (Contains(lower(resp.msg), "not ready") \/ Contains(lower(resp.msg), "building"))

IsReady(resp) == resp.kind = "ok"

IsIndeterminate(resp) == resp.kind = "raise" /\ ~IsNotReady(resp)

(* ------------------------------ claims -------------------------------- *)

\* C1: when the create call raises an "already exists" error (the words in any
\* case, or the token BucketAlreadyExists for the bucket, IndexAlreadyExists for
\* the index), create_vector_bucket and create_vector_index return a truthy
\* result, nothing propagates, and setup_infrastructure returns True when both
\* the bucket and the index already exist.
C1_AlreadyExistsIsSuccess ==
    /\ (last.fn = "create_vector_bucket"
        /\ RaisedAlreadyExists(last.resp, "BucketAlreadyExists"))
          => (Truthy(last.ret) /\ pc = "create_index")
    /\ (last.fn = "create_vector_index"
        /\ RaisedAlreadyExists(last.resp, "IndexAlreadyExists"))
          => (Truthy(last.ret) /\ pc # "crashed")
    /\ (/\ Len(trace) >= 2
        /\ trace[1].op = "create_bucket"
        /\ RaisedAlreadyExists(trace[1].resp, "BucketAlreadyExists")
        /\ trace[2].op = "create_index"
        /\ RaisedAlreadyExists(trace[2].resp, "IndexAlreadyExists"))
          => setup_result = PyBool(TRUE)

\* C1 witness: both creations answered "already exists", one by the token, one
\* by the words in capitals, and setup_infrastructure has returned.
C1_Witness ==
    /\ Len(trace) = 2
    /\ trace[1].resp = Raise("Conflict: Bucket Already Exists")
    /\ trace[2].resp = Raise("IndexAlreadyExists")
    /\ setup_result = PyBool(TRUE)

\* C2: in a run of main, a bucket or index creation that fails with an error
\* other than "already exists" ends the run there: the creation is the last
\* thing the run does (no retry, no index creation after a bucket failure, no
\* delay, probe, list, embedding, put_vectors or query_vectors call).
C2_ProvisioningFailureAborts ==
    prog = "main" =>
        /\ (/\ Len(trace) >= 1
            /\ trace[1].op = "create_bucket"
            /\ RaisedOther(trace[1].resp, "BucketAlreadyExists"))
              => (Len(trace) = 1 /\ pc = "done" /\ setup_result = PyBool(FALSE))
        /\ (/\ Len(trace) >= 2
            /\ trace[2].op = "create_index"
            /\ RaisedOther(trace[2].resp, "IndexAlreadyExists"))
              => (Len(trace) = 2 /\ pc = "done" /\ setup_result = PyBool(FALSE))

\* C2 witness: the bucket was created, the index creation failed, the run is over.
C2_Witness ==
    /\ prog = "main"
    /\ Len(trace) = 2
    /\ trace[1].resp = Ok(200)
    /\ trace[2].resp = Raise("AccessDenied")
    /\ pc = "done"

\* The probing loop is at work.
InProbeLoop == pc \in {"probe", "delay_retry"}

\* C3: when the probes answer n times NotReady and then Ready, with n+1 <= 3,
\* the probing loop stops at the Ready answer: the run has issued exactly n+1
\* probes and n sleeps between them, never more than 3 probes, and neither
\* probes nor sleeps again.
C3_ReadyEndsProbing ==
    LET h == ProbeHistory
    IN  /\ Len(h) <= 3
        /\ \A j \in 1..Len(h) :
              (/\ j <= 3
               /\ \A i \in 1..(j - 1) : IsNotReady(h[i])
               /\ IsReady(h[j]))
                 => (/\ Len(h) = j
                     /\ CountOp("delay_retry") = j - 1
                     /\ ~InProbeLoop)

\* C3 witness: NotReady, NotReady, Ready, and the run has moved on to listing.
C3_Witness ==
    /\ Len(ProbeHistory) = 3
    /\ IsNotReady(ProbeHistory[1])
    /\ IsNotReady(ProbeHistory[2])
    /\ IsReady(ProbeHistory[3])
    /\ CountOp("list_buckets") = 1

\* Every probe so far answered NotReady.
AllNotReady == \A i \in 1..Len(ProbeHistory) : IsNotReady(ProbeHistory[i])

\* The state part of C4.
C4_ThreeProbesTwoSleeps ==
    /\ CountOp("probe") <= 3
    /\ (AllNotReady /\ Len(ProbeHistory) \in 1..2) => InProbeLoop
    /\ (AllNotReady /\ Len(ProbeHistory) = 3) =>
          LET p == CHOOSE i \in At("probe") : \A q \in At("probe") : i <= q
          IN  /\ CountOp("delay_retry") = 2
              /\ \A i \in At("delay_retry") : trace[i].n = 30
              /\ [i \in 1..5 |-> trace[p + i - 1].op]
                    = << "probe", "delay_retry", "probe", "delay_retry", "probe" >>
              /\ ~InProbeLoop
              /\ pc # "crashed" \/ CountOp("embed_batch") = 1
              /\ Len(trace) > p + 4 => trace[p + 5].op = "list_buckets"

\* main has provisioned successfully.
Provisioned == prog = "main" /\ setup_result = PyBool(TRUE)

\* The run has called the embedding service with the batch.
IngestionReached == CountOp("embed_batch") = 1

\* C4: if every probe answers NotReady, the loop issues exactly 3 probes with
\* exactly 2 sleeps of 30 between them and none after the last, raises nothing,
\* and the run goes on; and after a successful provisioning every run reaches
\* the ingestion step, whatever the probes answer.
C4_NotReadyProceedsAnyway ==
    [] C4_ThreeProbesTwoSleeps /\ (Provisioned ~> IngestionReached)

\* C4 witness: three NotReady answers, and the batch has gone to the embedding
\* service.
C4_Witness ==
    /\ Len(ProbeHistory) = 3
    /\ AllNotReady
    /\ IngestionReached

\* C5: a probe that fails with an error that is not NotReady counts as ready:
\* test_index_with_simple_operation returns True, the loop ends at that attempt
\* with no further probe and no retry sleep, and the run goes on to ingestion.
C5_IndeterminateAssumesReady ==
    /\ (last.fn = "test_index_with_simple_operation" /\ IsIndeterminate(last.resp))
          => (last.ret = PyBool(TRUE) /\ pc = "list_buckets")
    /\ \A j \in 1..Len(ProbeHistory) :
          IsIndeterminate(ProbeHistory[j])
             => (/\ Len(ProbeHistory) = j
                 /\ CountOp("delay_retry") = j - 1
                 /\ ~InProbeLoop
                 /\ ~IngestionReached
                       => pc \in {"list_buckets", "list_indexes", "embed_batch"})

\* C5 witness: NotReady, then an access error, and the batch has gone to the
\* embedding service.
C5_Witness ==
    /\ Len(ProbeHistory) = 2
    /\ IsNotReady(ProbeHistory[1])
    /\ ProbeHistory[2] = Raise("AccessDenied")
    /\ IngestionReached

\* C6: when put_vectors raises, insert_vectors returns the failure indicator
\* None, and main skips the Query step: the failed insert is the last thing the
\* run does (no post-insert delay, no query embedding, no query_vectors), and
\* the run ends normally.
C6_InsertFailureSkipsQuery ==
    /\ (last.fn = "insert_vectors" /\ last.resp.kind = "raise")
          => (last.ret = PyNone /\ insert_result = PyNone)
    /\ prog = "main" =>
          \A i \in At("put_vectors") :
              trace[i].resp.kind = "raise"
                 => (/\ i = Len(trace)
                     /\ pc = "done"
                     /\ CountOp("delay_insert") = 0
                     /\ CountOp("embed_query") = 0
                     /\ CountOp("query_vectors") = 0)

\* C6 witness: main's put_vectors raised and the run is over.
C6_Witness ==
    /\ prog = "main"
    /\ CountOp("put_vectors") = 1
    /\ trace[Len(trace)].op = "put_vectors"
    /\ trace[Len(trace)].resp = Raise("AccessDenied")
    /\ pc = "done"

IsNamedStep(e) == e.op \notin {"list_buckets", "list_indexes"}

\* The run's steps that the orchestration sequence names (the two list calls
\* between probing and ingestion are not among them).
NamedSteps ==
    LET ns == SelectSeq(trace, IsNamedStep) IN [i \in 1..Len(ns) |-> ns[i].op]

\* What may come right after a step in ensureBucket, ensureIndex, delay, probe
\* loop, ingestion (embed, put), post-insert delay, Query (embed, query).
StepsAfter(op) ==
    CASE op = "create_bucket" -> {"create_index"}
      [] op = "create_index" -> {"delay_init"}
      [] op = "delay_init" -> {"probe"}
      [] op = "probe" -> {"delay_retry", "embed_batch"}
      [] op = "delay_retry" -> {"probe"}
      [] op = "embed_batch" -> {"put_vectors"}
      [] op = "put_vectors" -> {"delay_insert"}
      [] op = "delay_insert" -> {"embed_query"}
      [] op = "embed_query" -> {"query_vectors"}
      [] OTHER -> {}

\* C7: a run's remote operations come in the order ensureBucket, ensureIndex,
\* unconditional delay, probe loop, ingestion (embed the batch, then
\* put_vectors), post-insert delay, Query (embed the query, then query_vectors),
\* and the run is a prefix of that sequence: main starts it at ensureBucket, the
\* short script, which neither provisions nor probes, at ingestion.  The first
\* probe comes after exactly one unconditional delay, which follows the index
\* creation; query_vectors comes only after put_vectors has returned and the
\* post-insert delay has elapsed.
C7_OrchestrationOrder ==
    prog \in {"main", "short"} =>
        LET ns == NamedSteps
        IN  /\ Len(ns) >= 1 =>
                  ns[1] = (IF prog = "main" THEN "create_bucket" ELSE "embed_batch")
            /\ \A i \in 1..(Len(ns) - 1) : ns[i + 1] \in StepsAfter(ns[i])
            /\ \A i \in At("probe") :
                  /\ CountOp("delay_init") = 1
                  /\ \E d \in At("delay_init") :
                        /\ d < i
                        /\ d > 1 /\ trace[d - 1].op = "create_index"
                        /\ \A q \in At("probe") : d < q
            /\ \A i \in At("query_vectors") :
                  \E j \in At("put_vectors"), d \in At("delay_insert") :
                      /\ j < d /\ d < i
                      /\ trace[j].resp.kind = "ok"
                      /\ CountOp("delay_insert") = 1

\* C7 witness: a whole run of main against a bucket and an index that existed.
C7_Witness ==
    /\ prog = "main"
    /\ Len(trace) >= 2
    /\ RaisedAlreadyExists(trace[1].resp, "BucketAlreadyExists")
    /\ RaisedAlreadyExists(trace[2].resp, "IndexAlreadyExists")
    /\ CountOp("probe") = 2
    /\ CountOp("query_vectors") = 1
    /\ pc = "done"

\* C8: ingestion hands put_vectors exactly one record per input text: as many
\* records as texts, record i carrying embedding i and metadata i (with text i
\* as original_text), under keys that are pairwise distinct within the batch
\* and distinct from the keys of every earlier ingestion, identical texts
\* included.
C8_OneRecordPerTextFreshKeys ==
    /\ \A i, j \in 1..Len(key_log) : i # j => key_log[i] # key_log[j]
    /\ CountOp("put_vectors") >= 1 =>
          /\ Len(vectors_to_insert) = Len(texts)
          /\ \A i \in 1..Len(vectors_to_insert) :
                /\ vectors_to_insert[i].data = Embedding(texts[i])
                /\ vectors_to_insert[i].data = embeddings[i]
                /\ vectors_to_insert[i].metadata = metadata[i]
                /\ vectors_to_insert[i].metadata.original_text = texts[i]
                /\ vectors_to_insert[i].key = key_log[Len(key_log) - Len(texts) + i]

\* C8 witness: a client has ingested the batch "a", "a" twice.
C8_Witness ==
    /\ prog = "client"
    /\ calls = 2
    /\ CountOp("put_vectors") = 1
    /\ texts = << "a", "a" >>
    /\ Len(key_log) = 4
    /\ Len(stored) = 4
    /\ \A i \in 1..4 : stored[i].metadata.original_text = "a"

\* C9: one ingestion makes exactly one embedding call, carrying all N texts,
\* and at most one put_vectors call, carrying all N records: no call per
\* record, and no second call of either whatever put_vectors answered.
C9_OneEmbedOnePut ==
    /\ CountOp("embed_batch") <= 1
    /\ CountOp("put_vectors") <= 1
    /\ \A i \in At("embed_batch") : trace[i].n = Len(texts)
    /\ \A i \in At("put_vectors") :
          /\ trace[i].n = Len(texts)
          /\ Len(vectors_to_insert) = Len(texts)
          /\ CountOp("embed_batch") = 1

\* C9 witness: main's put_vectors answered HTTP 500 and the run went on to its
\* end.
C9_Witness ==
    /\ prog = "main"
    /\ \E i \in At("put_vectors") : trace[i].resp = Ok(500) /\ trace[i].n = 5
    /\ pc = "done"

\* C10: a query with topK = k prints at most k results, whatever the storage
\* service answers.
C10_AtMostTopK ==
    last.fn \in {"query_vectors", "query"} => Len(displayed) <= top_k

(* ----------------------- idempotent provisioning ---------------------- *)

\* The service created the resource, or said that it already exists.
CreatedOrExists(resp, token) ==
    \/ resp.kind = "ok" /\ resp.status = 200
    \/ RaisedAlreadyExists(resp, token)

\* A setup_infrastructure call in which both creations were answered so.
AnsweredAsIdempotent(call) ==
    /\ CreatedOrExists(call.bucket, "BucketAlreadyExists")
    /\ CreatedOrExists(call.index, "IndexAlreadyExists")

\* How often name occurs in the sequence names.
Occurrences(names, name) == Cardinality({i \in 1..Len(names) : names[i] = name})

\* C11: two setup_infrastructure calls with the same names, each creation
\* answered by "created" or "already exists", return success both times and
\* leave exactly one bucket and one index of that name in the service.
C11_SetupTwiceIsIdempotent ==
    \A i, j \in 1..Len(setup_log) :
        (i < j /\ AnsweredAsIdempotent(setup_log[i]) /\ AnsweredAsIdempotent(setup_log[j]))
        => /\ setup_log[i].result /\ setup_log[j].result
           /\ Occurrences(buckets, BucketName) = 1
           /\ Occurrences(indexes, IndexName) = 1

\* The first call created both resources, the second was told that both exist.
C11_Witness ==
    /\ Len(setup_log) = 2
    /\ setup_log[1].bucket = Ok(200) /\ setup_log[1].index = Ok(200)
    /\ RaisedAlreadyExists(setup_log[2].bucket, "BucketAlreadyExists")
    /\ RaisedAlreadyExists(setup_log[2].index, "IndexAlreadyExists")
    /\ setup_log[1].result /\ setup_log[2].result

(* ------------------------- metadata round trip ------------------------ *)

\* The position in key_log of a key handed to put_vectors (0: never handed).
LoggedAt(key) ==
    IF \E j \in 1..Len(key_log) : key_log[j] = key
    THEN CHOOSE j \in 1..Len(key_log) : key_log[j] = key
    ELSE 0

\* The results of the query that last returned.
QueryResults ==
    IF last.resp.kind = "ok" /\ "vectors" \in last.resp.keys
    THEN last.resp.vectors ELSE << >>

\* C12: the metadata handed to put_vectors is the metadata supplied at
\* ingestion, original_text included; a later query whose results hold such a
\* record's key carries that metadata unmodified, and the line printed for it
\* shows the record's original text.
C12_MetadataRoundTrip ==
    /\ \A i \in 1..Len(vectors_to_insert) :
          LET j == LoggedAt(vectors_to_insert[i].key)
          IN  /\ j # 0
              /\ vectors_to_insert[i].metadata = meta_log[j]
              /\ "original_text" \in DOMAIN meta_log[j]
    /\ \A i \in 1..Len(stored) :
          LoggedAt(stored[i].key) # 0
          => stored[i].metadata = meta_log[LoggedAt(stored[i].key)]
    /\ last.fn \in {"query_vectors", "query"}
       => \A i \in 1..Len(QueryResults) :
             LET j == LoggedAt(QueryResults[i].key)
             IN  j # 0
                 => /\ QueryResults[i].metadata = meta_log[j]
                    /\ i <= Len(displayed)
                       => displayed[i].text = meta_log[j].original_text

\* A client ingested two different texts and a later query printed both.
C12_Witness ==
    /\ prog = "client"
    /\ last.fn = "query_vectors"
    /\ Len(displayed) = 2
    /\ LoggedAt(QueryResults[1].key) # 0
    /\ LoggedAt(QueryResults[2].key) # 0
    /\ displayed[1].text # displayed[2].text

(* ---------------------------- empty batch ----------------------------- *)

\* The caller is ingesting: the batch embedding is due or has been asked for.
Ingesting ==
    \/ pc = "embed_batch"
    \/ Len(trace) > 0 /\ trace[1].op = "embed_batch"

\* C13: ingesting an empty batch of texts makes no embedding call and no
\* put_vectors call, and does not fail.
C13_EmptyBatchShortCircuits ==
    (prog = "client" /\ Ingesting /\ texts = << >>)
    => /\ CountOp("embed_batch") = 0
       /\ CountOp("put_vectors") = 0
       /\ pc # "crashed"

(* -------------------------- uncaught errors --------------------------- *)

\* C14: no failure of a remote call of main (creation, probe, listing, batch
\* embedding, insert, query embedding, query) ends the run with an uncaught
\* error.
C14_NoUncaughtError ==
    prog = "main" => pc # "crashed"

(* ---------------------------- zero results ---------------------------- *)

\* The query was answered without results: 'vectors' is empty or absent.
AnsweredWithoutResults(resp) ==
    /\ resp.kind = "ok"
    /\ "vectors" \notin resp.keys \/ Len(resp.vectors) = 0

\* C15: a query answered with zero results, 'vectors' empty or absent, is
\* not an error: query_vectors returns the service's response, not None, and
\* prints no result line; the short script's query ends normally too.
C15_ZeroResultsIsValid ==
    /\ (last.fn = "query_vectors" /\ AnsweredWithoutResults(last.resp))
       => /\ last.ret = PyDict(last.resp)
          /\ last.ret # PyNone
          /\ displayed = << >>
          /\ pc = finished
    /\ (last.fn = "query" /\ AnsweredWithoutResults(last.resp))
       => displayed = << >> /\ pc = "done"

\* main's query was answered with an empty 'vectors' list.
C15_Witness ==
    /\ prog = "main"
    /\ last.fn = "query_vectors"
    /\ last.resp = OkVectors(<< >>)
    /\ last.ret = PyDict(OkVectors(<< >>))

(* ----------------------- non-200 creation answers ---------------------- *)

\* The call was answered, with an HTTP status other than 200.
AnsweredNot200(resp) == resp.kind = "ok" /\ resp.status # 200

\* C16: when the bucket or the index creation is answered with an HTTP status
\* other than 200, provisioning halts: setup_infrastructure returns False and
\* main executes no later stage.
C16_Non200CreationHalts ==
    /\ \A call \in {setup_log[i] : i \in 1..Len(setup_log)} :
          (AnsweredNot200(call.bucket) \/ AnsweredNot200(call.index)) => ~call.result
    /\ prog = "main"
       => \A i \in At("create_bucket") \cup At("create_index") :
             AnsweredNot200(trace[i].resp)
             => Len(trace) = i /\ pc = "done"

(* ------------------------- non-200 insert answer ----------------------- *)

\* C17: when put_vectors is answered with an HTTP status other than 200, main
\* makes no query embedding call and no query_vectors call.
C17_Non200InsertSkipsQuery ==
    (prog = "main" /\ \E i \in At("put_vectors") : AnsweredNot200(trace[i].resp))
    => /\ CountOp("embed_query") = 0
       /\ CountOp("query_vectors") = 0
       /\ pc \notin {"delay_insert", "embed_query", "query"}

(* --------------------------- stored vectors --------------------------- *)

\* The step just taken is a put_vectors call.
StepIsPut ==
    /\ Len(trace') = Len(trace) + 1
    /\ trace'[Len(trace')].op = "put_vectors"

\* The step leaves the stored vectors alone unless it is the put_vectors call.
OnlyPutWrites == stored' # stored => StepIsPut

\* Every probe so far was a read: a query with topK = 1 and an all-equal
\* vector of the index dimension.
ProbesOnlyRead ==
    \A i \in At("probe") :
        /\ ProbeRequest.call = "query_vectors"
        /\ trace[i].n = 1
        /\ ProbeRequest.dimension = IndexDimension
        /\ Cardinality(ProbeRequest.values) = 1

\* C18: provisioning, probing and listing never change the stored vectors; in
\* every run the stored set is changed by no step but the single put_vectors
\* call, and the probe only reads (a query with topK = 1 and a synthetic
\* all-equal vector of the index dimension).
C18_OnlyPutChangesStored ==
    /\ [][OnlyPutWrites]_vars
    /\ [](ProbesOnlyRead /\ CountOp("put_vectors") <= 1)

\* main ran to its end: it probed, listed, inserted its five records and queried.
C18_Witness ==
    /\ prog = "main" /\ pc = "done"
    /\ CountOp("probe") >= 1
    /\ CountOp("list_buckets") = 1 /\ CountOp("list_indexes") = 1
    /\ CountOp("put_vectors") = 1
    /\ CountOp("query_vectors") = 1
    /\ \E n \in 0..1 : Len(stored) = n + Len(sample_texts)

(* --------------------------- result shapes ---------------------------- *)

\* C19: whenever the service's similarity query succeeds, query_vectors
\* returns the service's response and reports no error, whatever the shape of
\* the results: a result whose metadata lacks original_text is shown with the
\* placeholder, and a result may have no distance field.
C19_AnyResultShapeIsReturned ==
    (last.fn = "query_vectors" /\ last.resp.kind = "ok")
    => /\ last.ret = PyDict(last.resp)
       /\ Len(displayed) = Len(QueryResults)
       /\ \A i \in 1..Len(displayed) :
             "original_text" \notin DOMAIN QueryResults[i].metadata
             => displayed[i].text = "No text available"

(* ---------------------------- termination ----------------------------- *)

\* The sleeps of this run.
Delays == CountOp("delay_init") + CountOp("delay_retry") + CountOp("delay_insert")

\* main has ended: it returned, or an uncaught error ended it.
MainEnded == prog = "main" /\ pc \in {"done", "crashed"}

\* The calls and sleeps of a run of main stay within their bounds.
BoundedWork ==
    prog = "main"
    => /\ CountOp("probe") <= 3
       /\ CountOp("delay_init") <= 1
       /\ CountOp("delay_retry") <= 2
       /\ CountOp("delay_insert") <= 1
       /\ Delays <= 4
       /\ CountOp("create_bucket") <= 1
       /\ CountOp("create_index") <= 1
       /\ CountOp("put_vectors") <= 1
       /\ CountOp("query_vectors") <= 1

\* C20: every run of main terminates, after at most 3 probes, at most 4 delays
\* (one after provisioning, at most two between probes, at most one after the
\* insert) and at most one call each of create bucket, create index,
\* put_vectors and the query step's query_vectors.
C20_MainTerminatesBounded ==
    /\ [] BoundedWork
    /\ (prog = "main") ~> MainEnded

\* main ended after three probes, four delays and one call of each other kind.
C20_Witness ==
    /\ MainEnded
    /\ CountOp("probe") = 3
    /\ Delays = 4
    /\ CountOp("create_bucket") = 1 /\ CountOp("create_index") = 1
    /\ CountOp("put_vectors") = 1 /\ CountOp("query_vectors") = 1

=============================================================================
